---- MODULE Spec2Model ----
(***************************************************************************)
(* A model of xstakeoff: the polyline reconstructor of pdf_extract.py      *)
(* (extract_merged_polylines_in_rect) and the station locator and section  *)
(* framer of cli.py (find_station_text, detect_section_frames).            *)
(*                                                                         *)
(* Numbers.  Python floats are modelled by exact integers:                 *)
(*   - drawing coordinates and endpoint_tol are integers counted in half   *)
(*     page units (the point (10, 0.5) is <<20, 1>>, endpoint_tol = 1.0 is *)
(*     2), so _round_point and the test _dist(..) <= endpoint_tol are      *)
(*     computed exactly;                                                   *)
(*   - a length is a fixed-point number with LenScale steps per half unit, *)
(*     each _dist rounded down to a step;                                  *)
(*   - the vertical coordinates of section frames are counted in 1/20 of a *)
(*     page unit, which holds 0.9 * median_delta, (y0 + y1) / 2 and        *)
(*     section_h / 2 exactly for integer word boxes.                       *)
(* Segment indices are 1-based here and 0-based in the source; the order   *)
(* is the same.                                                            *)
(***************************************************************************)
EXTENDS Integers, Sequences, FiniteSets, TLC

VARIABLES
    mode,            \* which entry point this behaviour runs
    pc,              \* position inside the running function
    \* ---- extract_merged_polylines_in_rect
    segments,        \* the collected segments, in collection order
    endpoint_tol,
    min_length,
    endpoint_index,  \* quantized endpoint -> list of segment indices
    unused,
    polylines,
    chain,
    end,
    start,
    prepend,
    merged,          \* the chain being emitted (pdf_extract) or the kept frames (cli)
    call,            \* 1 on the first call, 2 on the repeated call with the same input
    firstResult,     \* what the first call returned
    members,         \* history: indices of the segments that put a point into the current chain
    chainSegs,       \* history: members of every chain built by this call, in order
    \* ---- find_station_text / detect_section_frames
    words,           \* the word source's answer: records [x0, y0, x1, y1, text]
    wi,              \* how many words the scan loop has consumed
    hits,            \* find_station_text's hits
    station_hits,    \* detect_section_frames' hits
    median_delta,
    section_h,       \* in 1/20 page units
    frames,
    frames_sorted,
    fi               \* how many sorted frames the dedup loop has consumed

vars == <<mode, pc, segments, endpoint_tol, min_length, endpoint_index, unused,
          polylines, chain, end, start, prepend, merged, call, firstResult,
          members, chainSegs, words, wi, hits, station_hits, median_delta,
          section_h, frames, frames_sorted, fi>>

polyVars == <<segments, endpoint_tol, min_length, endpoint_index, unused,
              polylines, chain, end, start, prepend, call, firstResult,
              members, chainSegs>>

wordVars == <<words, wi, hits, station_hits, median_delta, section_h, frames,
              frames_sorted, fi>>

-----------------------------------------------------------------------------
(* Bounds of the model.                                                    *)

\* the longest list of collected segments
MaxSegs == 3

\* the longest list of words the word source returns for a clip
MaxClipWords == 3

\* the longest list of words the word source returns for a whole page
MaxPageWords == 4

\* fixed-point steps per half page unit in a length
LenScale == 100

-----------------------------------------------------------------------------
(* Generic helpers.                                                        *)

Max(a, b) == IF a >= b THEN a ELSE b

Min(a, b) == IF a <= b THEN a ELSE b

Last(s) == s[Len(s)]

Reverse(s) == [i \in 1..Len(s) |-> s[Len(s) + 1 - i]]

RECURSIVE SqrtSearch(_, _, _)
\* the largest r in lo..hi with r * r <= n
SqrtSearch(n, lo, hi) ==
    IF lo >= hi THEN lo
    ELSE LET mid == (lo + hi + 1) \div 2
         IN  IF mid * mid <= n THEN SqrtSearch(n, mid, hi)
                               ELSE SqrtSearch(n, lo, mid - 1)

ISqrt(n) == SqrtSearch(n, 0, 46340)

-----------------------------------------------------------------------------
(* pdf_extract.py: pure functions.                                         *)

Dist2(a, b) == (a[1] - b[1]) * (a[1] - b[1]) + (a[2] - b[2]) * (a[2] - b[2])

\* _dist, as a fixed-point length
Dist(a, b) == ISqrt(Dist2(a, b) * LenScale * LenScale)

\* the comparison _dist(a, b) <= endpoint_tol
WithinTol(a, b, tol) == Dist2(a, b) <= tol * tol

RECURSIVE LengthUpTo(_, _)
LengthUpTo(poly, i) ==
    IF i <= 1 THEN 0 ELSE LengthUpTo(poly, i - 1) + Dist(poly[i - 1], poly[i])

\* _polyline_length
PolylineLength(poly) == LengthUpTo(poly, Len(poly))

\* round half up, a rounding the code does not use
RoundHalfUp(n, d) == (2 * n + d) \div (2 * d)

\* Python's round(n / d): to the nearest integer, a tie to the even one
RoundHalfEven(n, d) ==
    LET q == n \div d
        r == n % d
    IN  IF 2 * r < d THEN q
        ELSE IF 2 * r > d THEN q + 1
        ELSE IF q % 2 = 0 THEN q ELSE q + 1

\* _round_point
RoundPoint(p, tol) ==
    <<RoundHalfEven(p[1], tol) * tol, RoundHalfEven(p[2], tol) * tol>>

RECURSIVE BucketList(_, _, _, _)
\* the list endpoint_index holds under key k after the first i segments
BucketList(segs, tol, k, i) ==
    IF i = 0 THEN <<>>
    ELSE BucketList(segs, tol, k, i - 1)
         \o (IF RoundPoint(segs[i][1], tol) = k THEN <<i>> ELSE <<>>)
         \o (IF RoundPoint(segs[i][2], tol) = k THEN <<i>> ELSE <<>>)

BucketKeys(segs, tol) ==
    {RoundPoint(segs[i][1], tol) : i \in 1..Len(segs)}
        \cup {RoundPoint(segs[i][2], tol) : i \in 1..Len(segs)}

\* the endpoint_index built by the indexing loop
BuildEndpointIndex(segs, tol) ==
    [k \in BucketKeys(segs, tol) |-> BucketList(segs, tol, k, Len(segs))]

\* a lookup that forgets the unused test
NextConnectedAnyCand(current, index, un, tol) ==
    LET bucket == RoundPoint(current, tol)
    IN  IF bucket \in DOMAIN index THEN index[bucket] ELSE <<>>

\* next_connected: the unused candidates of current's bucket in index order;
\* the code returns the first one, or None when there is none
NextConnected(current, index, un, tol) ==
    LET bucket == RoundPoint(current, tol)
        cands  == IF bucket \in DOMAIN index THEN index[bucket] ELSE <<>>
    IN  SelectSeq(cands, LAMBDA c : c \in un)

\* any unused segment may be the seed
SeedAny(un) == un

\* next(iter(unused)): CPython iterates a set of small ints built from
\* range(n) in slot order, so the first element is the smallest one left
SeedChoices(un) == {CHOOSE s \in un : \A t \in un : s <= t}

\* a filter that keeps everything
KeepAll(poly, minlen) == TRUE

\* the filter _polyline_length(merged) >= min_length
Keep(poly, minlen) == PolylineLength(poly) >= minlen

RECURSIVE InsertDesc(_, _)
\* x put after every element at least as long: a stable descending insertion
InsertDesc(sorted, x) ==
    IF sorted = <<>> THEN <<x>>
    ELSE IF PolylineLength(Head(sorted)) >= PolylineLength(x)
         THEN <<Head(sorted)>> \o InsertDesc(Tail(sorted), x)
         ELSE <<x>> \o sorted

RECURSIVE SortUpTo(_, _)
SortUpTo(ps, i) ==
    IF i = 0 THEN <<>> ELSE InsertDesc(SortUpTo(ps, i - 1), ps[i])

\* polylines.sort(key=_polyline_length, reverse=True): stable, longest first
SortByLengthDesc(ps) == SortUpTo(ps, Len(ps))

\* a join that keeps the near endpoint instead
JoinNear(seg, atA) == IF atA THEN seg[1] ELSE seg[2]

\* the endpoint appended by a join: b when a is the near endpoint, else a
JoinOther(seg, atA) == IF atA THEN seg[2] ELSE seg[1]

\* merged = list(reversed(prepend))[:-1] + chain
MergedOf(pre, ch) == SubSeq(Reverse(pre), 1, Len(pre) - 1) \o ch

-----------------------------------------------------------------------------
(* cli.py: pure functions.                                                 *)

Digits == {"0", "1", "2", "3", "4", "5", "6", "7", "8", "9"}

Letters ==
    {"a", "b", "c", "d", "e", "f", "g", "h", "i", "j", "k", "l", "m",
     "n", "o", "p", "q", "r", "s", "t", "u", "v", "w", "x", "y", "z"}

\* \w, on the characters the tokens use
IsWordChar(c) == c \in Digits \cup Letters \cup {"_"}

\* \b between text[i] and text[i + 1]; i = 0 is the start, i = Len the end
WordBoundary(text, i) ==
    (i >= 1 /\ IsWordChar(text[i])) # (i < Len(text) /\ IsWordChar(text[i + 1]))

\* \d{3}\+\d{2} at the start of the token
StationPrefix(text) ==
    /\ Len(text) >= 6
    /\ \A i \in {1, 2, 3, 5, 6} : text[i] \in Digits
    /\ text[4] = "+"

\* a match that drops the two \b
StationMatchNoBoundary(text) == StationPrefix(text)

\* STATION_RE.match(text), STATION_RE = \b\d{3}\+\d{2}\b
StationMatch(text) ==
    /\ StationPrefix(text)
    /\ WordBoundary(text, 0)
    /\ WordBoundary(text, 6)

RectOfWord(w) == [x0 |-> w.x0, y0 |-> w.y0, x1 |-> w.x1, y1 |-> w.y1]

RECURSIVE InsertIdx(_, _, _)
\* index i put after every index whose key is not larger: a stable insertion
InsertIdx(keys, idxs, i) ==
    IF idxs = <<>> THEN <<i>>
    ELSE IF keys[Head(idxs)] <= keys[i]
         THEN <<Head(idxs)>> \o InsertIdx(keys, Tail(idxs), i)
         ELSE <<i>> \o idxs

RECURSIVE SortedIdxUpTo(_, _)
SortedIdxUpTo(keys, i) ==
    IF i = 0 THEN <<>> ELSE InsertIdx(keys, SortedIdxUpTo(keys, i - 1), i)

\* sorted(seq, key=...): stable, ascending; keys[i] is the key of seq[i]
SortedBy(seq, keys) ==
    LET idx == SortedIdxUpTo(keys, Len(keys))
    IN  [j \in 1..Len(seq) |-> seq[idx[j]]]

\* deltas = [ys[i+1] - ys[i] for i in range(len(ys) - 1)]
Deltas(ys) == [i \in 1..(Len(ys) - 1) |-> ys[i + 1] - ys[i]]

\* the lower-middle element, which the code does not take
MedianIndexLower(n) == (n + 1) \div 2

\* len(deltas_sorted)//2, as a 1-based index
MedianIndex(n) == n \div 2 + 1

\* deltas_sorted[len(deltas_sorted)//2]
MedianDelta(deltas) == SortedBy(deltas, deltas)[MedianIndex(Len(deltas))]

\* max(200, median_delta * 0.9), in 1/20 page units
SectionHeight(median) == Max(200 * 20, 18 * median)

\* the page: page.rect.width and page.rect.height, in page units
PageRect == [width |-> 100, height |-> 600]

\* page.rect.height / 3, in 1/20 page units (the height is a multiple of 3)
FallbackHeight == (20 * PageRect.height) \div 3

\* the frame built around one station hit (lines 61-69); x in 1/100 page
\* units, y in 1/20 page units
FrameOf(r, sh) ==
    LET y_center == 10 * (r.y0 + r.y1)
    IN  [x0 |-> 3 * PageRect.width,
         y0 |-> Max(0, y_center - sh \div 2),
         x1 |-> 100 * PageRect.width - 2 * PageRect.width,
         y1 |-> Min(20 * PageRect.height, y_center + sh \div 2)]

\* fitz.Rect.is_empty
RectIsEmpty(r) == r.x0 >= r.x1 \/ r.y0 >= r.y1

\* fitz.Rect.get_area()
RectArea(r) == IF RectIsEmpty(r) THEN 0 ELSE (r.x1 - r.x0) * (r.y1 - r.y0)

\* fitz.Rect.__bool__: false only when every coordinate is 0
RectBool(r) == ~(r.x0 = 0 /\ r.y0 = 0 /\ r.x1 = 0 /\ r.y1 = 0)

\* prev & fr: the common rectangle; rectangles that do not meet give a
\* rectangle that is false or has no area in every PyMuPDF version, here
\* the all-zero one
RectAnd(p, f) ==
    LET r == [x0 |-> Max(p.x0, f.x0), y0 |-> Max(p.y0, f.y0),
              x1 |-> Min(p.x1, f.x1), y1 |-> Min(p.y1, f.y1)]
    IN  IF r.x1 < r.x0 \/ r.y1 < r.y0
        THEN [x0 |-> 0, y0 |-> 0, x1 |-> 0, y1 |-> 0]
        ELSE r

\* prev | fr: the smallest rectangle holding both
RectOr(p, f) ==
    [x0 |-> Min(p.x0, f.x0), y0 |-> Min(p.y0, f.y0),
     x1 |-> Max(p.x1, f.x1), y1 |-> Max(p.y1, f.y1)]

\* a threshold that also merges at exactly 40%
HeavyOverlapOrEqual(prev, fr) ==
    LET overlap == RectAnd(prev, fr)
    IN  RectBool(overlap)
        /\ 10 * RectArea(overlap) >= 4 * Min(RectArea(prev), RectArea(fr))

\* overlap and overlap.get_area() > 0.4 * min(prev.get_area(), fr.get_area())
HeavyOverlap(prev, fr) ==
    LET overlap == RectAnd(prev, fr)
    IN  RectBool(overlap)
        /\ 10 * RectArea(overlap) > 4 * Min(RectArea(prev), RectArea(fr))

-----------------------------------------------------------------------------
(* Inputs of find_station_text and detect_section_frames.                  *)

Tok44500      == <<"4", "4", "5", "+", "0", "0">>
Tok445005     == <<"4", "4", "5", "+", "0", "0", "5">>
Tok44500extra == <<"4", "4", "5", "+", "0", "0", "e", "x", "t", "r", "a">>
Tok4500       == <<"4", "5", "+", "0", "0">>
Tok44500comma == <<"4", "4", "5", "+", "0", "0", ",">>
TokSta44500   == <<"s", "t", "a", "4", "4", "5", "+", "0", "0">>

Tokens == {Tok44500, Tok445005, Tok44500extra, Tok4500, Tok44500comma, TokSta44500}

\* a word 15 wide and 10 high whose box starts at height y
WordAt(text, y) == [x0 |-> 80, y0 |-> y, x1 |-> 95, y1 |-> y + 10, text |-> text]

ClipWordPool == {WordAt(t, 100) : t \in Tokens}

StationYs == {20, 100, 220, 300, 520}

PageWordPool == {WordAt(Tok44500, y) : y \in StationYs} \cup {WordAt(Tok445005, 100)}

-----------------------------------------------------------------------------
(* Inputs of extract_merged_polylines_in_rect.                             *)

PA  == <<0, 0>>
PB  == <<20, 0>>
PB1 == <<20, 1>>    \* (10, 0.5): 0.5 from PB, same bucket as PB
PB2 == <<20, 2>>    \* (10, 1.0): 1.0 from PB, another bucket
PC  == <<40, 0>>
PE  == <<19, 0>>    \* in PB's bucket
PF  == <<21, 1>>    \* in PB's bucket, farther than the tolerance from PE
PZ  == <<30, 20>>   \* away from every other point

SegmentPool ==
    { <<PA, PB>>, <<PB1, PC>>, <<PB, PC>>, <<PB2, PC>>,
      <<PA, PE>>, <<PF, PC>>, <<PC, PA>>, <<PB, PB>>, <<PZ, PZ>> }

RECURSIVE SeqsUpTo(_, _)
\* the sequences over S of length at most n
SeqsUpTo(S, n) ==
    IF n = 0 THEN {<<>>}
    ELSE LET shorter == SeqsUpTo(S, n - 1)
         IN  shorter \cup {Append(s, x) : s \in {t \in shorter : Len(t) = n - 1}, x \in S}

\* endpoint_tol = 1.0 and endpoint_tol = 2.0 (the default, and the caller's value)
Tols == {2, 4}

\* min_length = 0 and min_length = 9.5
MinLengths == {0, 19 * LenScale}

-----------------------------------------------------------------------------
(* Initial states.                                                         *)

NoPoint == <<>>

PolyIdle ==
    /\ segments = <<>>
    /\ endpoint_tol = 2
    /\ min_length = 0

PolyLocalsInit ==
    /\ endpoint_index = <<>>
    /\ unused = {}
    /\ polylines = <<>>
    /\ chain = <<>>
    /\ end = NoPoint
    /\ start = NoPoint
    /\ prepend = <<>>
    /\ merged = <<>>
    /\ call = 1
    /\ firstResult = <<>>
    /\ members = {}
    /\ chainSegs = <<>>

WordsIdle ==
    /\ words = <<>>
    /\ wi = 0
    /\ hits = <<>>
    /\ station_hits = <<>>
    /\ median_delta = 0
    /\ section_h = 0
    /\ frames = <<>>
    /\ frames_sorted = <<>>
    /\ fi = 0

InitPoly ==
    /\ mode = "poly"
    /\ pc = "start"
    /\ segments \in SeqsUpTo(SegmentPool, MaxSegs)
    /\ endpoint_tol \in Tols
    /\ min_length \in MinLengths
    /\ PolyLocalsInit
    /\ WordsIdle

InitStation ==
    /\ mode = "station"
    /\ pc = "scan"
    /\ words \in SeqsUpTo(ClipWordPool, MaxClipWords)
    /\ wi = 0 /\ hits = <<>> /\ station_hits = <<>>
    /\ median_delta = 0 /\ section_h = 0
    /\ frames = <<>> /\ frames_sorted = <<>> /\ fi = 0
    /\ PolyIdle
    /\ PolyLocalsInit

InitFrames ==
    /\ mode = "frames"
    /\ pc = "scan"
    /\ words \in SeqsUpTo(PageWordPool, MaxPageWords)
    /\ wi = 0 /\ hits = <<>> /\ station_hits = <<>>
    /\ median_delta = 0 /\ section_h = 0
    /\ frames = <<>> /\ frames_sorted = <<>> /\ fi = 0
    /\ PolyIdle
    /\ PolyLocalsInit

Init == InitPoly \/ InitStation \/ InitFrames

-----------------------------------------------------------------------------
(* extract_merged_polylines_in_rect, lines 69-137.                         *)

\* lines 69-70: no segments, return []
ReturnEmpty ==
    /\ mode = "poly" /\ pc = "start"
    /\ segments = <<>>
    /\ polylines' = <<>>
    /\ pc' = "returned"
    /\ UNCHANGED <<mode, segments, endpoint_tol, min_length, endpoint_index, unused,
                   chain, end, start, prepend, merged, call, firstResult,
                   members, chainSegs, wordVars>>

\* lines 72-77 and 86
BuildIndex ==
    /\ mode = "poly" /\ pc = "start"
    /\ segments # <<>>
    /\ endpoint_index' = BuildEndpointIndex(segments, endpoint_tol)
    /\ unused' = 1..Len(segments)
    /\ polylines' = <<>>
    /\ pc' = "loop"
    /\ UNCHANGED <<mode, segments, endpoint_tol, min_length,
                   chain, end, start, prepend, merged, call, firstResult,
                   members, chainSegs, wordVars>>

\* lines 88-96: take a seed, start the chain
PickSeed ==
    /\ mode = "poly" /\ pc = "loop"
    /\ unused # {}
    /\ \E start_idx \in SeedChoices(unused) :
        /\ unused' = unused \ {start_idx}
        /\ chain' = <<segments[start_idx][1], segments[start_idx][2]>>
        /\ end' = segments[start_idx][2]
        /\ members' = {start_idx}
    /\ pc' = "forward"
    /\ UNCHANGED <<mode, segments, endpoint_tol, min_length, endpoint_index,
                   polylines, start, prepend, merged, call, firstResult,
                   chainSegs, wordVars>>

\* lines 113-114, reached by either break of the forward loop
EnterBackward ==
    /\ start' = chain[1]
    /\ prepend' = <<chain[1]>>
    /\ pc' = "backward"

\* lines 98-100: no unused candidate
ForwardStop ==
    /\ mode = "poly" /\ pc = "forward"
    /\ NextConnected(end, endpoint_index, unused, endpoint_tol) = <<>>
    /\ EnterBackward
    /\ UNCHANGED <<mode, segments, endpoint_tol, min_length, endpoint_index, unused,
                   polylines, chain, end, merged, call, firstResult,
                   members, chainSegs, wordVars>>

\* lines 101-108: the candidate joins the chain
ForwardExtend ==
    /\ mode = "poly" /\ pc = "forward"
    /\ LET cands == NextConnected(end, endpoint_index, unused, endpoint_tol)
       IN  /\ cands # <<>>
           /\ LET nxt == Head(cands)
                  atA == WithinTol(end, segments[nxt][1], endpoint_tol)
                  atB == WithinTol(end, segments[nxt][2], endpoint_tol)
              IN  /\ atA \/ atB
                  /\ unused' = unused \ {nxt}
                  /\ chain' = Append(chain, JoinOther(segments[nxt], atA))
                  /\ end' = JoinOther(segments[nxt], atA)
                  /\ members' = members \cup {nxt}
    /\ pc' = "forward"
    /\ UNCHANGED <<mode, segments, endpoint_tol, min_length, endpoint_index,
                   polylines, start, prepend, merged, call, firstResult,
                   chainSegs, wordVars>>

\* lines 101-102, 109-110: the candidate is taken out of unused, neither
\* endpoint is within tolerance, the loop ends
ForwardBreak ==
    /\ mode = "poly" /\ pc = "forward"
    /\ LET cands == NextConnected(end, endpoint_index, unused, endpoint_tol)
       IN  /\ cands # <<>>
           /\ LET nxt == Head(cands)
              IN  /\ ~WithinTol(end, segments[nxt][1], endpoint_tol)
                  /\ ~WithinTol(end, segments[nxt][2], endpoint_tol)
                  /\ unused' = unused \ {nxt}
    /\ EnterBackward
    /\ UNCHANGED <<mode, segments, endpoint_tol, min_length, endpoint_index,
                   polylines, chain, end, merged, call, firstResult,
                   members, chainSegs, wordVars>>

\* lines 130-131, reached by either break of the backward loop
EnterEmit(pre) ==
    /\ merged' = MergedOf(pre, chain)
    /\ pc' = "emit"

\* lines 116-118
BackwardStop ==
    /\ mode = "poly" /\ pc = "backward"
    /\ NextConnected(start, endpoint_index, unused, endpoint_tol) = <<>>
    /\ EnterEmit(prepend)
    /\ UNCHANGED <<mode, segments, endpoint_tol, min_length, endpoint_index, unused,
                   polylines, chain, end, start, prepend, call, firstResult,
                   members, chainSegs, wordVars>>

\* lines 119-126
BackwardExtend ==
    /\ mode = "poly" /\ pc = "backward"
    /\ LET cands == NextConnected(start, endpoint_index, unused, endpoint_tol)
       IN  /\ cands # <<>>
           /\ LET nxt == Head(cands)
                  atA == WithinTol(start, segments[nxt][1], endpoint_tol)
                  atB == WithinTol(start, segments[nxt][2], endpoint_tol)
              IN  /\ atA \/ atB
                  /\ unused' = unused \ {nxt}
                  /\ prepend' = Append(prepend, JoinOther(segments[nxt], atA))
                  /\ start' = JoinOther(segments[nxt], atA)
                  /\ members' = members \cup {nxt}
    /\ pc' = "backward"
    /\ UNCHANGED <<mode, segments, endpoint_tol, min_length, endpoint_index,
                   polylines, chain, end, merged, call, firstResult,
                   chainSegs, wordVars>>

\* lines 119-120, 127-128
BackwardBreak ==
    /\ mode = "poly" /\ pc = "backward"
    /\ LET cands == NextConnected(start, endpoint_index, unused, endpoint_tol)
       IN  /\ cands # <<>>
           /\ LET nxt == Head(cands)
              IN  /\ ~WithinTol(start, segments[nxt][1], endpoint_tol)
                  /\ ~WithinTol(start, segments[nxt][2], endpoint_tol)
                  /\ unused' = unused \ {nxt}
    /\ EnterEmit(prepend)
    /\ UNCHANGED <<mode, segments, endpoint_tol, min_length, endpoint_index,
                   polylines, chain, end, start, prepend, call, firstResult,
                   members, chainSegs, wordVars>>

\* lines 133-134: keep the merged chain when it is long enough
Emit ==
    /\ mode = "poly" /\ pc = "emit"
    /\ polylines' = IF Keep(merged, min_length) THEN Append(polylines, merged)
                                                ELSE polylines
    /\ chainSegs' = Append(chainSegs, members)
    /\ pc' = "loop"
    /\ UNCHANGED <<mode, segments, endpoint_tol, min_length, endpoint_index, unused,
                   chain, end, start, prepend, merged, call, firstResult,
                   members, wordVars>>

\* lines 88, 136-137: unused is empty, sort and return
SortReturn ==
    /\ mode = "poly" /\ pc = "loop"
    /\ unused = {}
    /\ polylines' = SortByLengthDesc(polylines)
    /\ pc' = "returned"
    /\ UNCHANGED <<mode, segments, endpoint_tol, min_length, endpoint_index, unused,
                   chain, end, start, prepend, merged, call, firstResult,
                   members, chainSegs, wordVars>>

\* the caller calls again with the same page, rect and parameters
CallAgain ==
    /\ mode = "poly" /\ pc = "returned"
    /\ call = 1
    /\ firstResult' = polylines
    /\ call' = 2
    /\ pc' = "start"
    /\ endpoint_index' = <<>>
    /\ unused' = {}
    /\ polylines' = <<>>
    /\ chain' = <<>>
    /\ end' = NoPoint
    /\ start' = NoPoint
    /\ prepend' = <<>>
    /\ merged' = <<>>
    /\ members' = {}
    /\ chainSegs' = <<>>
    /\ UNCHANGED <<mode, segments, endpoint_tol, min_length, wordVars>>

-----------------------------------------------------------------------------
(* find_station_text, cli.py lines 9-17.                                   *)

\* lines 13-16: one word of the loop
FindStationWord ==
    /\ mode = "station" /\ pc = "scan"
    /\ wi < Len(words)
    /\ wi' = wi + 1
    /\ hits' = IF StationMatch(words[wi + 1].text)
               THEN Append(hits, <<words[wi + 1].text, RectOfWord(words[wi + 1])>>)
               ELSE hits
    /\ UNCHANGED <<mode, pc, polyVars, merged, words, station_hits, median_delta,
                   section_h, frames, frames_sorted, fi>>

\* line 17
FindStationReturn ==
    /\ mode = "station" /\ pc = "scan"
    /\ wi = Len(words)
    /\ pc' = "returned"
    /\ UNCHANGED <<mode, polyVars, merged, wordVars>>

-----------------------------------------------------------------------------
(* detect_section_frames, cli.py lines 19-87.                              *)

\* lines 30-33: one word of the loop
ScanWord ==
    /\ mode = "frames" /\ pc = "scan"
    /\ wi < Len(words)
    /\ wi' = wi + 1
    /\ station_hits' =
           IF StationMatch(words[wi + 1].text)
           THEN Append(station_hits, <<words[wi + 1].text, RectOfWord(words[wi + 1])>>)
           ELSE station_hits
    /\ UNCHANGED <<mode, pc, polyVars, merged, words, hits, median_delta,
                   section_h, frames, frames_sorted, fi>>

\* lines 36-37: no station, return []
ReturnNoStations ==
    /\ mode = "frames" /\ pc = "scan"
    /\ wi = Len(words)
    /\ station_hits = <<>>
    /\ merged' = <<>>
    /\ pc' = "returned"
    /\ UNCHANGED <<mode, polyVars, wordVars>>

\* lines 40-51: sort the hits, take the spacing
InferSpacing ==
    /\ mode = "frames" /\ pc = "scan"
    /\ wi = Len(words)
    /\ station_hits # <<>>
    /\ LET sorted == SortedBy(station_hits,
                              [i \in 1..Len(station_hits) |-> station_hits[i][2].y0])
           ys     == [i \in 1..Len(sorted) |-> sorted[i][2].y0]
           deltas == Deltas(ys)
       IN  /\ station_hits' = sorted
           /\ IF deltas # <<>>
              THEN /\ median_delta' = MedianDelta(deltas)
                   /\ section_h' = SectionHeight(MedianDelta(deltas))
              ELSE /\ median_delta' = median_delta
                   /\ section_h' = FallbackHeight
    /\ pc' = "frames"
    /\ UNCHANGED <<mode, polyVars, merged, words, wi, hits, frames, frames_sorted, fi>>

\* lines 54-74: a frame around every station, then the frames sorted by top
BuildFrames ==
    /\ mode = "frames" /\ pc = "frames"
    /\ LET built == [i \in 1..Len(station_hits) |-> FrameOf(station_hits[i][2], section_h)]
       IN  /\ frames' = built
           /\ frames_sorted' = SortedBy(built, [i \in 1..Len(built) |-> built[i].y0])
    /\ merged' = <<>>
    /\ fi' = 0
    /\ pc' = "dedup"
    /\ UNCHANGED <<mode, polyVars, words, wi, hits, station_hits, median_delta,
                   section_h>>

\* lines 75-78: the first frame is kept
DedupFirst ==
    /\ mode = "frames" /\ pc = "dedup"
    /\ fi < Len(frames_sorted)
    /\ merged = <<>>
    /\ merged' = <<frames_sorted[fi + 1]>>
    /\ fi' = fi + 1
    /\ UNCHANGED <<mode, pc, polyVars, words, wi, hits, station_hits, median_delta,
                   section_h, frames, frames_sorted>>

\* lines 79-83: a heavy overlap, the kept frame becomes the union
DedupMerge ==
    /\ mode = "frames" /\ pc = "dedup"
    /\ fi < Len(frames_sorted)
    /\ merged # <<>>
    /\ HeavyOverlap(Last(merged), frames_sorted[fi + 1])
    /\ merged' = [merged EXCEPT ![Len(merged)] = RectOr(Last(merged), frames_sorted[fi + 1])]
    /\ fi' = fi + 1
    /\ UNCHANGED <<mode, pc, polyVars, words, wi, hits, station_hits, median_delta,
                   section_h, frames, frames_sorted>>

\* lines 79-82, 84-85: otherwise the frame is a new entry
DedupAppend ==
    /\ mode = "frames" /\ pc = "dedup"
    /\ fi < Len(frames_sorted)
    /\ merged # <<>>
    /\ ~HeavyOverlap(Last(merged), frames_sorted[fi + 1])
    /\ merged' = Append(merged, frames_sorted[fi + 1])
    /\ fi' = fi + 1
    /\ UNCHANGED <<mode, pc, polyVars, words, wi, hits, station_hits, median_delta,
                   section_h, frames, frames_sorted>>

\* line 87
ReturnFrames ==
    /\ mode = "frames" /\ pc = "dedup"
    /\ fi = Len(frames_sorted)
    /\ pc' = "returned"
    /\ UNCHANGED <<mode, polyVars, merged, wordVars>>

Next ==
    \/ ReturnEmpty
    \/ BuildIndex
    \/ PickSeed
    \/ ForwardStop
    \/ ForwardExtend
    \/ ForwardBreak
    \/ BackwardStop
    \/ BackwardExtend
    \/ BackwardBreak
    \/ Emit
    \/ SortReturn
    \/ CallAgain
    \/ FindStationWord
    \/ FindStationReturn
    \/ ScanWord
    \/ ReturnNoStations
    \/ InferSpacing
    \/ BuildFrames
    \/ DedupFirst
    \/ DedupMerge
    \/ DedupAppend
    \/ ReturnFrames

Spec == Init /\ [][Next]_vars

-----------------------------------------------------------------------------
(* Properties.                                                             *)

Returned(m) == mode = m /\ pc = "returned"

\* C1: every polyline extract_merged_polylines_in_rect returns is at least
\* min_length long, and the returned list is ordered by non-increasing length.
C1_LengthFilterAndOrder ==
    Returned("poly") =>
        /\ \A i \in 1..Len(polylines) : PolylineLength(polylines[i]) >= min_length
        /\ \A i \in 1..Len(polylines) : \A j \in i..Len(polylines) :
               PolylineLength(polylines[i]) >= PolylineLength(polylines[j])

\* C1 witness: a call returned two polylines of different lengths after the
\* filter had dropped a shorter chain, and the chain built first, from the
\* first segment, is returned second.
C1_Witness ==
    /\ Returned("poly")
    /\ min_length > 0
    /\ Len(polylines) >= 2
    /\ Len(chainSegs) > Len(polylines)
    /\ PolylineLength(polylines[1]) > PolylineLength(polylines[2])
    /\ polylines[2] = segments[1]

\* an endpoint of the first segment within endpoint_tol of an endpoint of the second
NearEndpoints(segs, tol) ==
    \E i \in {1, 2} : \E j \in {1, 2} : WithinTol(segs[1][i], segs[2][j], tol)

\* C2: for an input of exactly two segments with an endpoint of one within
\* endpoint_tol of an endpoint of the other, and nothing filtered, the call
\* returns one merged 3-point polyline, whatever buckets the endpoints fall in.
C2_TolerancePairMerges ==
    ( /\ Returned("poly")
      /\ Len(segments) = 2
      /\ min_length = 0
      /\ NearEndpoints(segments, endpoint_tol) )
    => /\ Len(polylines) = 1
       /\ Len(polylines[1]) = 3

\* the pair <<p, q>> is segment <<a, b>> exactly
ExactPair(p, q, a, b) == p = a /\ q = b

\* the pair <<p, q>> is segment <<a, b>> with one end exact and the other
\* within the tolerance
JoinedPair(p, q, a, b, tol) ==
    \/ p = a /\ WithinTol(q, b, tol)
    \/ WithinTol(p, a, tol) /\ q = b

\* C3 as stated: in every polyline built, each consecutive pair of points is
\* exactly a collected segment or its reverse.
C3_PairsAreExactSegments ==
    (mode = "poly" /\ pc = "emit") =>
        \A i \in 1..(Len(merged) - 1) : \E k \in 1..Len(segments) :
            \/ ExactPair(merged[i], merged[i + 1], segments[k][1], segments[k][2])
            \/ ExactPair(merged[i], merged[i + 1], segments[k][2], segments[k][1])

\* C3 amended: in every polyline built, each consecutive pair of points
\* comes from a segment merged into that polyline, or its reverse: one point
\* of the pair is an endpoint of the segment, and the other point is within
\* endpoint_tol of the segment's other endpoint.
C3_PairsAreJoinedSegments ==
    (mode = "poly" /\ pc = "emit") =>
        \A i \in 1..(Len(merged) - 1) : \E k \in members :
            \/ JoinedPair(merged[i], merged[i + 1], segments[k][1], segments[k][2],
                          endpoint_tol)
            \/ JoinedPair(merged[i], merged[i + 1], segments[k][2], segments[k][1],
                          endpoint_tol)

\* C3 witness: a polyline of two segments joined at endpoints that are within
\* tolerance and not identical, so that one of its pairs is no collected segment.
C3_Witness ==
    /\ mode = "poly" /\ pc = "emit"
    /\ Len(merged) >= 3
    /\ Cardinality(members) >= 2
    /\ \E i \in 1..(Len(merged) - 1) : \A k \in 1..Len(segments) :
           /\ ~ExactPair(merged[i], merged[i + 1], segments[k][1], segments[k][2])
           /\ ~ExactPair(merged[i], merged[i + 1], segments[k][2], segments[k][1])

\* the input of the merge closure example: ((0,0),(10,0)) and ((10,0.5),(20,0)),
\* endpoint_tol = 1.0, min_length <= 20
MergeClosureCase ==
    /\ Returned("poly")
    /\ segments = << <<PA, PB>>, <<PB1, PC>> >>
    /\ endpoint_tol = 2
    /\ min_length <= 40 * LenScale

\* C4 as stated: the example returns exactly one polyline, of 3 points, whose
\* length is about 20.02 (between 20.01 and 20.03).
C4_MergeClosureLength2002 ==
    MergeClosureCase =>
        /\ Len(polylines) = 1
        /\ Len(polylines[1]) = 3
        /\ 100 * PolylineLength(polylines[1]) >= 2001 * 2 * LenScale
        /\ 100 * PolylineLength(polylines[1]) <= 2003 * 2 * LenScale

\* C4 amended: the example returns exactly one polyline, the 3 points
\* (0,0), (10,0), (20,0), and its length is exactly 20.0: the near endpoint
\* (10,0.5) is not a point of the polyline.
C4_MergeClosureLength20 ==
    MergeClosureCase =>
        /\ polylines = << <<PA, PB, PC>> >>
        /\ PolylineLength(polylines[1]) = 40 * LenScale

\* C4 witness: the example has been run to its return.
C4_Witness == MergeClosureCase /\ Len(polylines) = 1

\* the hits of the running scan
ScanHits == IF mode = "station" THEN hits ELSE station_hits

\* the word has been scanned and its text is the text of a hit
Reported(text) == \E h \in 1..Len(ScanHits) : ScanHits[h][1] = text

Scanning == mode \in {"station", "frames"} /\ pc = "scan"

\* C5 as stated: a scanned "445+00", "445+005" or "445+00extra" is a station
\* hit, and a scanned "45+00" is not.
C5_PrefixMatch ==
    Scanning =>
        \A i \in 1..wi :
            /\ words[i].text \in {Tok44500, Tok445005, Tok44500extra}
                   => Reported(words[i].text)
            /\ words[i].text = Tok4500 => ~Reported(words[i].text)

\* C5 amended: the three digits, "+", two digits must start the token and
\* end at a word boundary: a scanned "445+00" (or "445+00,") is a station
\* hit, and a scanned "45+00", "445+005", "445+00extra" is not.
C5_BoundedMatch ==
    Scanning =>
        \A i \in 1..wi :
            /\ words[i].text \in {Tok44500, Tok44500comma} => Reported(words[i].text)
            /\ words[i].text \in {Tok4500, Tok445005, Tok44500extra}
                   => ~Reported(words[i].text)

\* C5 witness: find_station_text has scanned "445+00", "445+005" and
\* "445+00extra" and holds one hit.
C5_Witness ==
    /\ mode = "station" /\ pc = "scan"
    /\ wi = Len(words)
    /\ {Tok44500, Tok445005, Tok44500extra} \subseteq {words[i].text : i \in 1..wi}
    /\ Len(hits) = 1

\* the y0 of the sorted station hits, and their consecutive deltas
StationYsSorted == [i \in 1..Len(station_hits) |-> station_hits[i][2].y0]

StationDeltas == Deltas(StationYsSorted)

CountBelow(d, m) == Cardinality({i \in 1..Len(d) : d[i] < m})

CountUpTo(d, m) == Cardinality({i \in 1..Len(d) : d[i] <= m})

SpacingTaken == mode = "frames" /\ pc \in {"frames", "dedup", "returned"}
                    /\ station_hits # <<>>

\* C6 as stated: for an even number of deltas the median taken is the
\* lower-middle element of the sorted deltas; for y0 = [100, 300, 520] it is
\* 200, and section_height is 200.
C6_LowerMiddleMedian ==
    SpacingTaken =>
        /\ (Len(StationDeltas) > 0 /\ Len(StationDeltas) % 2 = 0) =>
               /\ CountBelow(StationDeltas, median_delta) <= Len(StationDeltas) \div 2 - 1
               /\ CountUpTo(StationDeltas, median_delta) >= Len(StationDeltas) \div 2
        /\ StationYsSorted = <<100, 300, 520>> =>
               /\ median_delta = 200
               /\ section_h = 200 * 20

\* C6 amended: for an even number of deltas the median taken is the
\* upper-middle element of the sorted deltas (index count // 2, 0-based);
\* for y0 = [100, 300, 520] it is 220, and section_height is
\* max(200, 0.9 * 220) = 200.
C6_UpperMiddleMedian ==
    SpacingTaken =>
        /\ (Len(StationDeltas) > 0 /\ Len(StationDeltas) % 2 = 0) =>
               /\ CountBelow(StationDeltas, median_delta) <= Len(StationDeltas) \div 2
               /\ CountUpTo(StationDeltas, median_delta) >= Len(StationDeltas) \div 2 + 1
        /\ StationYsSorted = <<100, 300, 520>> =>
               /\ median_delta = 220
               /\ section_h = 200 * 20

\* C6 witness: the spacing has been taken for y0 = [100, 300, 520].
C6_Witness ==
    /\ mode = "frames" /\ pc = "frames"
    /\ StationYsSorted = <<100, 300, 520>>
    /\ median_delta = 220

\* the area two rectangles share, from their coordinates
SharedArea(p, f) ==
    Max(0, Min(p.x1, f.x1) - Max(p.x0, f.x0)) * Max(0, Min(p.y1, f.y1) - Max(p.y0, f.y0))

PlainArea(r) == (r.x1 - r.x0) * (r.y1 - r.y0)

BoundingBox(p, f) ==
    [x0 |-> Min(p.x0, f.x0), y0 |-> Min(p.y0, f.y0),
     x1 |-> Max(p.x1, f.x1), y1 |-> Max(p.y1, f.y1)]

\* C7: walking the frames sorted by top, the next frame is merged into the
\* last kept frame (replaced by the union rectangle) exactly when their
\* intersection area is strictly more than 40% of the smaller of the two
\* areas; otherwise it is appended as a distinct entry; the kept frames stay
\* ordered top to bottom.
C7_DedupThreshold ==
    /\ [][ (mode = "frames" /\ pc = "dedup" /\ merged # <<>> /\ fi' = fi + 1) =>
             LET prev == Last(merged)
                 fr   == frames_sorted[fi + 1]
             IN  IF 10 * SharedArea(prev, fr) > 4 * Min(PlainArea(prev), PlainArea(fr))
                 THEN merged' = [merged EXCEPT ![Len(merged)] = BoundingBox(prev, fr)]
                 ELSE merged' = Append(merged, fr) ]_vars
    /\ [](mode = "frames" =>
             \A i \in 1..Len(merged) : \A j \in i..Len(merged) :
                 merged[i].y0 <= merged[j].y0)

\* C7 witness: the walk has merged one frame and kept apart a frame whose
\* intersection with the last kept frame is exactly 40% of the smaller area.
C7_Witness ==
    /\ Returned("frames")
    /\ Len(merged) >= 2
    /\ Len(merged) < Len(frames_sorted)
    /\ \E i \in 1..(Len(merged) - 1) :
           /\ SharedArea(merged[i], merged[i + 1]) > 0
           /\ 10 * SharedArea(merged[i], merged[i + 1])
                  = 4 * Min(PlainArea(merged[i]), PlainArea(merged[i + 1]))

C9_SegmentConservation ==
    Returned("poly") =>
        \A i \in 1..Len(segments) :
            Cardinality({k \in 1..Len(chainSegs) : i \in chainSegs[k]}) = 1

\* the steps a call can still take are bounded by this number: four for every
\* unused segment, and the rank of the position inside the current pass
StepsLeft ==
    CASE pc = "start"    -> 4 * Len(segments) + 2
      [] pc = "loop"     -> 4 * Cardinality(unused) + 1
      [] pc = "forward"  -> 4 * Cardinality(unused) + 4
      [] pc = "backward" -> 4 * Cardinality(unused) + 3
      [] pc = "emit"     -> 4 * Cardinality(unused) + 2
      [] OTHER           -> 0

\* the candidate the running loop is about to take, if there is one
Candidate ==
    NextConnected(IF pc = "forward" THEN end ELSE start, endpoint_index, unused,
                  endpoint_tol)

\* C10: the chain-merging loop terminates with the unused set empty for every
\* list of collected segments (loops, junctions, duplicates and zero-length
\* segments among them): every step of a call lowers StepsLeft, which is never
\* negative, so a call returns after at most 4 * len(segments) + 2 steps; it
\* returns with unused empty; unused.remove(nxt) always finds nxt; and every
\* pass of the forward or backward loop that does not leave the loop, and
\* every seed taken, strictly shrinks the unused set.
C10_Termination ==
    /\ [](Returned("poly") => unused = {})
    /\ []((mode = "poly" /\ pc \in {"forward", "backward"} /\ Candidate # <<>>)
              => Head(Candidate) \in unused)
    /\ [][ (mode = "poly" /\ pc # "returned") => StepsLeft' < StepsLeft ]_vars
    /\ [][ (mode = "poly"
                /\ \/ pc \in {"forward", "backward"} /\ pc' = pc
                   \/ pc = "loop" /\ pc' = "forward")
             => (unused' \subseteq unused /\ unused' # unused) ]_vars

\* C10 witness: a call has returned for a closed loop of three segments.
C10_Witness ==
    /\ Returned("poly")
    /\ segments = << <<PA, PB>>, <<PB, PC>>, <<PC, PA>> >>
    /\ unused = {}

====
